---- MODULE Spec2Model ----
(***************************************************************************)
(* Huffman compressor / decompressor of src/huffman.py.                    *)
(*                                                                         *)
(* Conventions.  A Python value that may be None is a sequence of length   *)
(* 0 (None) or 1 (the value).  bytes and str are sequences of integers     *)
(* (byte values, code points).  A string of '0'/'1' digits is a sequence   *)
(* of the integers 0 and 1.  A dict is the sequence of its <<key, value>>  *)
(* pairs in insertion order, which is the order Python iterates it in.     *)
(* A NoHuffman is a record; an absent child is NoneNo.                     *)
(***************************************************************************)
EXTENDS Integers, Sequences, FiniteSets, TLC

VARIABLES
    texto,        \* Huffman.texto
    bytes_dados,  \* Huffman.bytes_dados
    tabela_freq,  \* Huffman.tabela_freq
    raiz,         \* Huffman.raiz
    codigos,      \* Huffman.codigos
    arq_huff,     \* the .huff file on disk (caminho_saida / caminho_huff)
    arq_saida,    \* the recovered text file on disk (descompactar's caminho_saida)
    raiz_dec,     \* descompactar_arquivo: raiz of its own instance h
    resultado,    \* descompactar_arquivo: dados_reconst
    op,           \* the last method called
    erro,         \* the exception the last call raised, "" when it returned
    bits,         \* _bits_para_bytes: its argument
    empacotado    \* _bits_para_bytes: its result <<dados, padding>>

vars == <<texto, bytes_dados, tabela_freq, raiz, codigos, arq_huff, arq_saida,
          raiz_dec, resultado, op, erro, bits, empacotado>>

instancia == <<texto, bytes_dados, tabela_freq, raiz, codigos>>
decodif == <<arq_saida, raiz_dec, resultado>>
empacot == <<bits, empacotado>>

(***************************************************************************)
(* Bounds of the model.                                                    *)
(***************************************************************************)
\* longest text file (in bytes) offered to ler_arquivo in Spec
MaxLen == 6
\* longest text file (in bytes) offered to ler_arquivo in SpecSessao
MaxLenSessao == 2
\* longest digit string given to _bits_para_bytes in SpecBits
MaxBits == 16
\* most table entries / payload bytes / largest frequency of a container in SpecDec
MaxEntradas == 2
MaxPayload == 2
MaxFreq == 2

\* byte values of the files: 'a', 'b' and the two bytes of U+00E9
Simbolos == {97, 98, 195, 169}

SeqAte(S, n) == UNION {[1..k -> S] : k \in 0..n}

(***************************************************************************)
(* Optional values, dicts.                                                 *)
(***************************************************************************)
None == <<>>
Some(v) == <<v>>
Val(o) == o[1]

NoSimbolo == -1
NoneNo == [nil |-> TRUE]

DictTem(d, k) == \E i \in 1..Len(d) : d[i][1] = k
DictGet(d, k) == d[CHOOSE i \in 1..Len(d) : d[i][1] = k][2]
DictGetOu(d, k, padrao) == IF DictTem(d, k) THEN DictGet(d, k) ELSE padrao
DictSet(d, k, v) ==
    IF DictTem(d, k)
    THEN [i \in 1..Len(d) |-> IF d[i][1] = k THEN <<k, v>> ELSE d[i]]
    ELSE Append(d, <<k, v>>)

RECURSIVE Soma(_)
Soma(s) == IF s = <<>> THEN 0 ELSE Head(s) + Soma(Tail(s))
DictValores(d) == [i \in 1..Len(d) |-> d[i][2]]

(***************************************************************************)
(* Text layer: open(..., "r", encoding="utf-8").read(), str.encode,        *)
(* bytes.decode.                                                           *)
(***************************************************************************)
EhCont(b) == b >= 128 /\ b <= 191

\* bytes.decode("utf-8"), strict: None when it raises UnicodeDecodeError
RECURSIVE Utf8Decode(_)
Utf8Decode(bs) ==
    IF bs = <<>> THEN Some(<<>>)
    ELSE
      LET b == bs[1]
          n == Len(bs)
          resto(k, cp) ==
              LET r == Utf8Decode(SubSeq(bs, k + 1, n))
              IN IF r = None THEN None ELSE Some(<<cp>> \o Val(r))
      IN IF b < 128 THEN resto(1, b)
         ELSE IF b >= 194 /\ b <= 223
         THEN IF n >= 2 /\ EhCont(bs[2])
              THEN resto(2, (b - 192) * 64 + (bs[2] - 128))
              ELSE None
         ELSE IF b >= 224 /\ b <= 239
         THEN IF /\ n >= 3 /\ EhCont(bs[2]) /\ EhCont(bs[3])
                 /\ (b = 224 => bs[2] >= 160)
                 /\ (b = 237 => bs[2] <= 159)
              THEN resto(3, (b - 224) * 4096 + (bs[2] - 128) * 64 + (bs[3] - 128))
              ELSE None
         ELSE IF b >= 240 /\ b <= 244
         THEN IF /\ n >= 4 /\ EhCont(bs[2]) /\ EhCont(bs[3]) /\ EhCont(bs[4])
                 /\ (b = 240 => bs[2] >= 144)
                 /\ (b = 244 => bs[2] <= 143)
              THEN resto(4, (b - 240) * 262144 + (bs[2] - 128) * 4096
                              + (bs[3] - 128) * 64 + (bs[4] - 128))
              ELSE None
         ELSE None

\* universal newlines of a text-mode read: "\r\n" and "\r" become "\n"
RECURSIVE TraduzirNovaLinha(_)
TraduzirNovaLinha(t) ==
    IF t = <<>> THEN <<>>
    ELSE IF t[1] = 13
    THEN IF Len(t) >= 2 /\ t[2] = 10
         THEN <<10>> \o TraduzirNovaLinha(SubSeq(t, 3, Len(t)))
         ELSE <<10>> \o TraduzirNovaLinha(Tail(t))
    ELSE <<t[1]>> \o TraduzirNovaLinha(Tail(t))

\* str.encode("utf-8")
RECURSIVE Utf8Encode(_)
Utf8Encode(t) ==
    IF t = <<>> THEN <<>>
    ELSE
      LET cp == t[1]
          um == IF cp < 128 THEN <<cp>>
                ELSE IF cp < 2048 THEN <<192 + (cp \div 64), 128 + (cp % 64)>>
                ELSE IF cp < 65536
                THEN <<224 + (cp \div 4096), 128 + ((cp \div 64) % 64), 128 + (cp % 64)>>
                ELSE <<240 + (cp \div 262144), 128 + ((cp \div 4096) % 64),
                       128 + ((cp \div 64) % 64), 128 + (cp % 64)>>
      IN um \o Utf8Encode(Tail(t))

\* bytes.decode("latin-1"): every byte is its own code point
Latin1Decode(bs) == bs

\* the text descompactar_arquivo writes: UTF-8, else Latin-1
TextoRecuperado(bs) ==
    IF Utf8Decode(bs) # None THEN Val(Utf8Decode(bs)) ELSE Latin1Decode(bs)

(***************************************************************************)
(* 2) Frequency table.                                                     *)
(***************************************************************************)
RECURSIVE ContarFreq(_, _)
ContarFreq(bs, freq) ==
    IF bs = <<>> THEN freq
    ELSE ContarFreq(Tail(bs), DictSet(freq, Head(bs), DictGetOu(freq, Head(bs), 0) + 1))

TabelaDe(bs) == ContarFreq(bs, <<>>)

(***************************************************************************)
(* 3) Tree.                                                                *)
(***************************************************************************)
NoHuffman(fr, simb, esq, dir) ==
    [freq |-> fr, simbolo |-> simb, esquerdo |-> esq, direito |-> dir]

eh_folha(no) == no.simbolo # NoSimbolo

\* NoHuffman.__lt__
NoMenor(a, b) == a.freq < b.freq

\* order of the heap's tuples (fr, contador, no): Python compares tuples
\* element by element and reaches the nodes only when fr and contador tie
EntradaMenor(a, b) ==
    \/ a[1] < b[1]
    \/ a[1] = b[1] /\ a[2] < b[2]
    \/ a[1] = b[1] /\ a[2] = b[2] /\ a[3] # b[3] /\ NoMenor(a[3], b[3])

\* what heapq.heappop may return: an entry no other entry is smaller than
Minimos(heap) == {e \in heap : \A o \in heap : ~EntradaMenor(o, e)}

\* the first loop: one leaf per table item, pushed with the running counter
RECURSIVE EmpilharFolhas(_, _, _)
EmpilharFolhas(itens, heap, contador) ==
    IF itens = <<>> THEN <<heap, contador>>
    ELSE EmpilharFolhas(Tail(itens),
             heap \cup {<<itens[1][2], contador,
                          NoHuffman(itens[1][2], itens[1][1], NoneNo, NoneNo)>>},
             contador + 1)

\* variant: merged nodes pushed with a constant instead of the running counter
ContadorDoPaiConstante(contador) == 0

\* the counter pushed with a merged node
ContadorDoPai(contador) == contador

\* variant: the two popped nodes attached the other way round
NoPaiTrocado(no1, no2) == NoHuffman(no1.freq + no2.freq, NoSimbolo, no2, no1)

\* the parent of the two popped nodes
NoPai(no1, no2) == NoHuffman(no1.freq + no2.freq, NoSimbolo, no1, no2)

\* the while loop: every root it can end with
RECURSIVE Combinar(_, _)
Combinar(heap, contador) ==
    IF Cardinality(heap) <= 1 THEN {e[3] : e \in heap}
    ELSE UNION {
           UNION {
             Combinar((heap \ {e1, e2})
                        \cup {<<e1[1] + e2[1], ContadorDoPai(contador), NoPai(e1[3], e2[3])>>},
                      contador + 1)
             : e2 \in Minimos(heap \ {e1}) }
           : e1 \in Minimos(heap) }

\* variant: no synthetic parent, the only leaf is the root
RaizUnicoSemPai(unico_no) == unico_no

\* the root for a table of one symbol
RaizUnico(unico_no) == NoHuffman(unico_no.freq, NoSimbolo, unico_no, NoneNo)

\* construir_arvore on a non-empty table: the roots it can return
Arvores(tabela) ==
    LET hc == EmpilharFolhas(tabela, {}, 0)
    IN IF Cardinality(hc[1]) = 1
       THEN {RaizUnico(e[3]) : e \in hc[1]}
       ELSE Combinar(hc[1], hc[2])

(***************************************************************************)
(* 4) Code table.                                                          *)
(***************************************************************************)
\* variant: the right edge labelled like the left one
CaminhoDireitoZero(caminho) == caminho \o <<0>>

\* the path handed to the right child
CaminhoDireito(caminho) == caminho \o <<1>>

RECURSIVE GerarRec(_, _, _)
GerarRec(no, caminho, cods) ==
    IF eh_folha(no)
    THEN DictSet(cods, no.simbolo, IF caminho # <<>> THEN caminho ELSE <<0>>)
    ELSE LET c1 == IF no.esquerdo # NoneNo
                   THEN GerarRec(no.esquerdo, caminho \o <<0>>, cods)
                   ELSE cods
         IN IF no.direito # NoneNo
            THEN GerarRec(no.direito, CaminhoDireito(caminho), c1)
            ELSE c1

CodigosDe(r) == GerarRec(r, <<>>, <<>>)

(***************************************************************************)
(* 5) Bit packing and the container.                                       *)
(***************************************************************************)
Zeros(n) == [i \in 1..n |-> 0]

\* variant: the outer "% 8" forgotten
PaddingSemModulo(n) == 8 - (n % 8)

\* padding = (8 - (len(bits) % 8)) % 8
Padding(n) == (8 - (n % 8)) % 8

\* int(byte_str, 2)
RECURSIVE IntBase2(_)
IntBase2(ds) ==
    IF ds = <<>> THEN 0 ELSE 2 * IntBase2(SubSeq(ds, 1, Len(ds) - 1)) + ds[Len(ds)]

BitsParaBytes(bs) ==
    IF Len(bs) = 0 THEN <<<<>>, 0>>
    ELSE LET padding == Padding(Len(bs))
             cheio == bs \o Zeros(padding)
         IN <<[i \in 1..(Len(cheio) \div 8) |->
                  IntBase2(SubSeq(cheio, 8 * (i - 1) + 1, 8 * i))],
              padding>>

\* variant: f"{b:b}", no leading zeros
RECURSIVE Bin8SemZeros(_)
Bin8SemZeros(b) == IF b < 2 THEN <<b>> ELSE Bin8SemZeros(b \div 2) \o <<b % 2>>

\* f"{b:08b}"
Bin8(b) == [i \in 1..8 |-> (b \div (2 ^ (8 - i))) % 2]

RECURSIVE BytesParaBits(_)
BytesParaBits(dados) ==
    IF dados = <<>> THEN <<>> ELSE Bin8(Head(dados)) \o BytesParaBits(Tail(dados))

\* bits[:-padding], guarded by "if padding > 0"
TirarPadding(bs, padding) ==
    IF padding > 0
    THEN SubSeq(bs, 1, IF Len(bs) > padding THEN Len(bs) - padding ELSE 0)
    ELSE bs

MAGIC == <<72, 85, 70, 49>>

\* int.to_bytes(w, "big") for 0 <= n < 256^w (it raises OverflowError above)
IntParaBytes(n, w) == [i \in 1..w |-> (n \div (256 ^ (w - i))) % 256]
CabeNoInt(n, w) == n \div (256 ^ (w - 1)) < 256

\* int.from_bytes(bs, "big")
RECURSIVE BytesParaInt(_)
BytesParaInt(bs) ==
    IF bs = <<>> THEN 0
    ELSE 256 * BytesParaInt(SubSeq(bs, 1, Len(bs) - 1)) + bs[Len(bs)]

\* the order the table is written in
ItensEscritos(freq) == freq

\* the table loop of compactar: <<bytes written, "" or the exception>>
RECURSIVE EscreverTabela(_)
EscreverTabela(itens) ==
    IF itens = <<>> THEN <<<<>>, "">>
    ELSE LET b == itens[1][1]
             fr == itens[1][2]
         IN IF ~CabeNoInt(fr, 4) THEN <<IntParaBytes(b, 1), "OverflowError">>
            ELSE LET r == EscreverTabela(Tail(itens))
                 IN <<IntParaBytes(b, 1) \o IntParaBytes(fr, 4) \o r[1], r[2]>>

\* the with-block of compactar: <<file content, "" or the exception>>
EscreverContainer(freq, padding, dados) ==
    LET t == EscreverTabela(ItensEscritos(freq))
        ini == MAGIC \o IntParaBytes(Len(freq), 4) \o t[1]
    IN IF t[2] # "" THEN <<ini, t[2]>>
       ELSE <<ini \o IntParaBytes(padding, 1) \o dados, "">>

\* "".join(self.codigos[b] for b in self.bytes_dados)
RECURSIVE Codificar(_, _)
Codificar(bd, cods) ==
    IF bd = <<>> THEN <<>> ELSE DictGet(cods, Head(bd)) \o Codificar(Tail(bd), cods)

(***************************************************************************)
(* 6) Decompression.                                                       *)
(***************************************************************************)
\* f.read(n) at offset pos (0-based): at most n bytes
Ler(c, pos, n) == SubSeq(c, pos + 1, IF pos + n <= Len(c) THEN pos + n ELSE Len(c))

\* the table loop: [erro, tabela, pos]
RECURSIVE LerTabela(_, _, _, _)
LerTabela(c, pos, n, tabela) ==
    IF n = 0 THEN [erro |-> "", tabela |-> tabela, pos |-> pos]
    ELSE LET s == Ler(c, pos, 1)
             fr_bytes == Ler(c, pos + Len(s), 4)
         IN IF Len(s) < 1 \/ Len(fr_bytes) < 4
            THEN [erro |-> "TruncatedEntry", tabela |-> tabela, pos |-> pos]
            ELSE LerTabela(c, pos + 5, n - 1,
                           DictSet(tabela, s[1], BytesParaInt(fr_bytes)))

\* the with-block of descompactar_arquivo: [erro, tabela, padding, dados]
LerContainer(c) ==
    LET falha(e) == [erro |-> e, tabela |-> <<>>, padding |-> 0, dados |-> <<>>]
        magic == Ler(c, 0, 4)
        n_bytes == Ler(c, 4, 4)
    IN IF magic # MAGIC THEN falha("InvalidFormat")
       ELSE IF Len(n_bytes) < 4 THEN falha("TruncatedCount")
       ELSE LET t == LerTabela(c, 8, BytesParaInt(n_bytes), <<>>)
            IN IF t.erro # "" THEN falha(t.erro)
               ELSE LET padding_byte == Ler(c, t.pos, 1)
                        dados == SubSeq(c, t.pos + 2, Len(c))
                    IN IF Len(padding_byte) < 1 THEN falha("TruncatedPadding")
                       ELSE IF Len(dados) = 0 /\ Soma(DictValores(t.tabela)) > 0
                       THEN falha("CorruptNoData")
                       ELSE [erro |-> "", tabela |-> t.tabela,
                             padding |-> padding_byte[1], dados |-> dados]

\* the decoding loop: [erro, resultado]
RECURSIVE Percorrer(_, _, _, _, _)
Percorrer(r, no_atual, bs, res, total) ==
    IF bs = <<>> THEN [erro |-> "", resultado |-> res]
    ELSE LET prox == IF Head(bs) = 0 THEN no_atual.esquerdo ELSE no_atual.direito
         IN IF prox = NoneNo
            THEN [erro |-> "CorruptNavigation", resultado |-> res]
            ELSE IF eh_folha(prox)
            THEN LET res2 == Append(res, prox.simbolo)
                 IN IF Len(res2) = total
                    THEN [erro |-> "", resultado |-> res2]
                    ELSE Percorrer(r, r, Tail(bs), res2, total)
            ELSE Percorrer(r, prox, Tail(bs), res, total)

\* from the rebuilt root to dados_reconst
Decodificar(r, cab) ==
    Percorrer(r, r, TirarPadding(BytesParaBits(cab.dados), cab.padding), <<>>,
              Soma(DictValores(cab.tabela)))

(***************************************************************************)
(* The methods of Huffman.  A Huffman instance is the record h of its      *)
(* fields plus erro, the exception the call ends with ("" when it          *)
(* returns).  A method is the set of instances it can leave behind.        *)
(***************************************************************************)
Instancia == [erro |-> "", texto |-> texto, bytes_dados |-> bytes_dados,
              tabela_freq |-> tabela_freq, raiz |-> raiz, codigos |-> codigos]

\* cls(): __init__
NovaInstancia == [erro |-> "", texto |-> None, bytes_dados |-> None,
                  tabela_freq |-> None, raiz |-> NoneNo, codigos |-> None]

Ok(hs) == {h \in hs : h.erro = ""}
Falhas(hs) == {h \in hs : h.erro # ""}

\* variant: the reset of raiz forgotten
ler_arquivo_sem_reset(h, arquivo) ==
    IF arquivo = None THEN {[h EXCEPT !.erro = "NotFound"]}
    ELSE IF Utf8Decode(Val(arquivo)) = None
    THEN {[h EXCEPT !.erro = "UnicodeDecodeError"]}
    ELSE LET t == TraduzirNovaLinha(Val(Utf8Decode(Val(arquivo))))
         IN {[h EXCEPT !.texto = Some(t), !.bytes_dados = Some(Utf8Encode(t)),
                       !.tabela_freq = None, !.codigos = None]}

\* arquivo: None when the path is no file, else the file's bytes
ler_arquivo(h, arquivo) ==
    IF arquivo = None THEN {[h EXCEPT !.erro = "NotFound"]}
    ELSE IF Utf8Decode(Val(arquivo)) = None
    THEN {[h EXCEPT !.erro = "UnicodeDecodeError"]}
    ELSE LET t == TraduzirNovaLinha(Val(Utf8Decode(Val(arquivo))))
         IN {[h EXCEPT !.texto = Some(t), !.bytes_dados = Some(Utf8Encode(t)),
                       !.tabela_freq = None, !.raiz = NoneNo, !.codigos = None]}

gerar_tabela_frequencia(h) ==
    IF h.bytes_dados = None THEN {[h EXCEPT !.erro = "NotLoaded"]}
    ELSE {[h EXCEPT !.tabela_freq = Some(TabelaDe(Val(h.bytes_dados)))]}

imprimir_tabela_frequencia(h) ==
    IF h.tabela_freq = None THEN gerar_tabela_frequencia(h) ELSE {h}

construir_arvore(h) ==
    LET h1s == IF h.tabela_freq = None THEN gerar_tabela_frequencia(h) ELSE {h}
    IN Falhas(h1s) \cup UNION {
         IF Val(h1.tabela_freq) = <<>>
         THEN {[h1 EXCEPT !.erro = "EmptyInput"]}
         ELSE {[h1 EXCEPT !.raiz = r] : r \in Arvores(Val(h1.tabela_freq))}
         : h1 \in Ok(h1s) }

imprimir_arvore(h) ==
    IF h.raiz = NoneNo THEN construir_arvore(h) ELSE {h}

gerar_codigos(h) ==
    LET h1s == IF h.raiz = NoneNo THEN construir_arvore(h) ELSE {h}
    IN Falhas(h1s) \cup {[h1 EXCEPT !.codigos = Some(CodigosDe(h1.raiz))] : h1 \in Ok(h1s)}

imprimir_codigos(h) ==
    IF h.codigos = None THEN gerar_codigos(h) ELSE {h}

\* compactar up to the with-block: the caches filled
PrepararCompactar(h) ==
    IF h.bytes_dados = None THEN {[h EXCEPT !.erro = "NotLoaded"]}
    ELSE LET h1s == IF h.tabela_freq = None THEN gerar_tabela_frequencia(h) ELSE {h}
             h2s == Falhas(h1s) \cup UNION {
                      IF h1.raiz = NoneNo THEN construir_arvore(h1) ELSE {h1}
                      : h1 \in Ok(h1s) }
         IN Falhas(h2s) \cup UNION {
              IF h2.codigos = None THEN gerar_codigos(h2) ELSE {h2}
              : h2 \in Ok(h2s) }

\* variant: the output file opened ("wb") before the caches are filled
compactar_abre_antes(h, arquivo) ==
    {<<f, Some(<<>>)>> : f \in Falhas(PrepararCompactar(h))}
    \cup
    { LET pk == BitsParaBytes(Codificar(Val(h3.bytes_dados), Val(h3.codigos)))
          w == EscreverContainer(Val(h3.tabela_freq), pk[2], pk[1])
      IN <<[h3 EXCEPT !.erro = w[2]], Some(w[1])>>
      : h3 \in Ok(PrepararCompactar(h)) }

\* compactar: the pairs <<instance left behind, .huff file left behind>>
compactar(h, arquivo) ==
    {<<f, arquivo>> : f \in Falhas(PrepararCompactar(h))}
    \cup
    { IF \E i \in 1..Len(Val(h3.bytes_dados)) :
             ~DictTem(Val(h3.codigos), Val(h3.bytes_dados)[i])
      THEN <<[h3 EXCEPT !.erro = "KeyError"], arquivo>>
      ELSE LET pk == BitsParaBytes(Codificar(Val(h3.bytes_dados), Val(h3.codigos)))
               w == EscreverContainer(Val(h3.tabela_freq), pk[2], pk[1])
           IN <<[h3 EXCEPT !.erro = w[2]], Some(w[1])>>
      : h3 \in Ok(PrepararCompactar(h)) }

\* descompactar_arquivo: what it can end with,
\* [erro, raiz (of its instance h), resultado (dados_reconst), saida (file written)]
descompactar_arquivo(arquivo) ==
    LET falha(e) == [erro |-> e, raiz |-> NoneNo, resultado |-> None, saida |-> None]
    IN IF arquivo = None THEN {falha("NotFound")}
       ELSE LET cab == LerContainer(Val(arquivo))
            IN IF cab.erro # "" THEN {falha(cab.erro)}
               ELSE LET hs == construir_arvore(
                                 [NovaInstancia EXCEPT !.tabela_freq = Some(cab.tabela)])
                    IN {falha(h.erro) : h \in Falhas(hs)}
                       \cup
                       { LET d == Decodificar(h.raiz, cab)
                         IN IF d.erro # ""
                            THEN [falha(d.erro) EXCEPT !.raiz = h.raiz]
                            ELSE [erro |-> "", raiz |-> h.raiz,
                                  resultado |-> Some(d.resultado),
                                  saida |-> Some(Utf8Encode(TextoRecuperado(d.resultado)))]
                         : h \in Ok(hs) }

(***************************************************************************)
(* Actions: one call of a method.                                          *)
(***************************************************************************)
Chamar(nome, hs) ==
    \E h \in hs :
        /\ op' = nome
        /\ erro' = h.erro
        /\ texto' = h.texto
        /\ bytes_dados' = h.bytes_dados
        /\ tabela_freq' = h.tabela_freq
        /\ raiz' = h.raiz
        /\ codigos' = h.codigos

LerArquivo(maxlen) ==
    /\ \E arquivo \in {None} \cup {Some(c) : c \in SeqAte(Simbolos, maxlen)} :
           Chamar("ler_arquivo", ler_arquivo(Instancia, arquivo))
    /\ UNCHANGED <<arq_huff, decodif, empacot>>

GerarTabelaFrequencia ==
    /\ Chamar("gerar_tabela_frequencia", gerar_tabela_frequencia(Instancia))
    /\ UNCHANGED <<arq_huff, decodif, empacot>>

ImprimirTabelaFrequencia ==
    /\ Chamar("imprimir_tabela_frequencia", imprimir_tabela_frequencia(Instancia))
    /\ UNCHANGED <<arq_huff, decodif, empacot>>

ConstruirArvore ==
    /\ Chamar("construir_arvore", construir_arvore(Instancia))
    /\ UNCHANGED <<arq_huff, decodif, empacot>>

ImprimirArvore ==
    /\ Chamar("imprimir_arvore", imprimir_arvore(Instancia))
    /\ UNCHANGED <<arq_huff, decodif, empacot>>

GerarCodigos ==
    /\ Chamar("gerar_codigos", gerar_codigos(Instancia))
    /\ UNCHANGED <<arq_huff, decodif, empacot>>

ImprimirCodigos ==
    /\ Chamar("imprimir_codigos", imprimir_codigos(Instancia))
    /\ UNCHANGED <<arq_huff, decodif, empacot>>

Compactar ==
    /\ \E r \in compactar(Instancia, arq_huff) :
           /\ Chamar("compactar", {r[1]})
           /\ arq_huff' = r[2]
    /\ UNCHANGED <<decodif, empacot>>

DescompactarArquivo ==
    /\ \E d \in descompactar_arquivo(arq_huff) :
           /\ op' = "descompactar_arquivo"
           /\ erro' = d.erro
           /\ raiz_dec' = d.raiz
           /\ resultado' = d.resultado
           /\ arq_saida' = IF d.erro = "" THEN d.saida ELSE arq_saida
    /\ UNCHANGED <<instancia, arq_huff, empacot>>

ChamarBitsParaBytes ==
    /\ empacotado = None
    /\ empacotado' = Some(BitsParaBytes(bits))
    /\ op' = "_bits_para_bytes"
    /\ UNCHANGED <<instancia, arq_huff, decodif, erro, bits>>

(***************************************************************************)
(* Specifications.                                                         *)
(***************************************************************************)
InitInstancia ==
    /\ texto = None /\ bytes_dados = None /\ tabela_freq = None
    /\ raiz = NoneNo /\ codigos = None
InitDecodif == arq_saida = None /\ raiz_dec = NoneNo /\ resultado = None
InitChamada == op = "" /\ erro = ""
InitEmpacot == bits = <<>> /\ empacotado = None

\* Spec: one source file followed through every method, then decompressed
Init == InitInstancia /\ InitDecodif /\ InitChamada /\ InitEmpacot /\ arq_huff = None

Next ==
    \/ (bytes_dados = None /\ LerArquivo(MaxLen))
    \/ GerarTabelaFrequencia
    \/ ConstruirArvore
    \/ GerarCodigos
    \/ Compactar
    \/ DescompactarArquivo

Spec == Init /\ [][Next]_vars

\* SpecSessao: one instance, any sequence of calls, any number of loads
NextSessao ==
    \/ LerArquivo(MaxLenSessao)
    \/ GerarTabelaFrequencia
    \/ ImprimirTabelaFrequencia
    \/ ConstruirArvore
    \/ ImprimirArvore
    \/ GerarCodigos
    \/ ImprimirCodigos
    \/ Compactar

SpecSessao == Init /\ [][NextSessao]_vars

\* SpecDec: descompactar_arquivo on any .huff file a user may hand it
MagicsDec == {MAGIC, <<72, 85, 70, 50>>}
SimbolosDec == {97, 98}
PaddingsDec == {0, 7, 9}
BytesDec == {0, 128, 255}

RECURSIVE Concat(_)
Concat(ss) == IF ss = <<>> THEN <<>> ELSE Head(ss) \o Concat(Tail(ss))

\* a file laid out like a container
ContainerDec(m, es, p, dados) ==
    m \o IntParaBytes(Len(es), 4)
      \o Concat([i \in 1..Len(es) |->
                   IntParaBytes(es[i][1], 1) \o IntParaBytes(es[i][2], 4)])
      \o IntParaBytes(p, 1) \o dados

\* the .huff path holds no file, or a container, or a container cut short
InitDec ==
    /\ InitInstancia /\ InitDecodif /\ InitChamada /\ InitEmpacot
    /\ \/ arq_huff = None
       \/ \E m \in MagicsDec, es \in SeqAte(SimbolosDec \X (0..MaxFreq), MaxEntradas),
             p \in PaddingsDec, dados \in SeqAte(BytesDec, MaxPayload) :
            \E k \in 0..Len(ContainerDec(m, es, p, dados)) :
               arq_huff = Some(SubSeq(ContainerDec(m, es, p, dados), 1, k))

NextDec == DescompactarArquivo

SpecDec == InitDec /\ [][NextDec]_vars

\* SpecBits: _bits_para_bytes on any digit string
InitBits ==
    /\ InitInstancia /\ InitDecodif /\ InitChamada /\ arq_huff = None
    /\ bits \in SeqAte({0, 1}, MaxBits)
    /\ empacotado = None

NextBits == ChamarBitsParaBytes

SpecBits == InitBits /\ [][NextBits]_vars

(***************************************************************************)
(* Properties checked under Spec.                                          *)
(***************************************************************************)
EhPrefixo(a, b) == Len(a) <= Len(b) /\ SubSeq(b, 1, Len(a)) = a

Repetir(b, k) == [i \in 1..k |-> b]

DistintosDe(bd) == {bd[i] : i \in 1..Len(bd)}

\* C1: round trip.  The .huff file compactar wrote for the loaded bytes is
\* decoded by descompactar_arquivo, without an error, to exactly those bytes,
\* and the text file it writes holds the same bytes.
RoundTrip ==
    (op = "descompactar_arquivo" /\ arq_huff # None)
        => (erro = "" /\ resultado = bytes_dados /\ arq_saida = bytes_dados)

RoundTripWitness ==
    /\ op = "descompactar_arquivo" /\ erro = ""
    /\ resultado = bytes_dados
    /\ Cardinality(DistintosDe(Val(bytes_dados))) >= 3
    /\ Len(LerContainer(Val(arq_huff)).dados) >= 2

\* C2: empty input.  compactar on empty loaded bytes ends with the EmptyInput
\* error and leaves no .huff file (none was ever opened for writing).
EmptyInputFails ==
    (op = "compactar" /\ bytes_dados = Some(<<>>))
        => (erro = "EmptyInput" /\ arq_huff = None)

EmptyInputWitness ==
    op = "compactar" /\ bytes_dados = Some(<<>>) /\ erro = "EmptyInput"

\* C3: prefix code.  With two or more distinct symbols every code is
\* non-empty and no symbol's code is a prefix of another symbol's code.
PrefixCode ==
    (codigos # None /\ Len(Val(tabela_freq)) >= 2)
        => /\ Len(Val(codigos)) = Len(Val(tabela_freq))
           /\ \A i \in 1..Len(Val(codigos)) :
                /\ Val(codigos)[i][2] # <<>>
                /\ \A j \in 1..Len(Val(codigos)) :
                     i # j => ~EhPrefixo(Val(codigos)[i][2], Val(codigos)[j][2])

PrefixCodeWitness ==
    /\ codigos # None
    /\ Len(Val(codigos)) = 4
    /\ \E i \in 1..4 : Len(Val(codigos)[i][2]) = 3

\* the heaps of the merging loop never hold two entries that tie on
\* (fr, contador), so no comparison of tuples reaches the nodes
RECURSIVE SemEmpate(_, _)
SemEmpate(heap, contador) ==
    /\ \A a \in heap : \A b \in heap : a # b => (a[1] # b[1] \/ a[2] # b[2])
    /\ Cardinality(heap) > 1 =>
         \A e1 \in Minimos(heap) : \A e2 \in Minimos(heap \ {e1}) :
            SemEmpate((heap \ {e1, e2})
                        \cup {<<e1[1] + e2[1], ContadorDoPai(contador), NoPai(e1[3], e2[3])>>},
                      contador + 1)

\* C4: deterministic tree.  The table admits exactly one tree (no pop of the
\* heap has a choice, no tie reaches the nodes), and the tree and codes
\* rebuilt by descompactar_arquivo from the stored table are those of compactar.
DeterministicTree ==
    /\ raiz # NoneNo =>
         /\ Arvores(Val(tabela_freq)) = {raiz}
         /\ LET hc == EmpilharFolhas(Val(tabela_freq), {}, 0)
            IN SemEmpate(hc[1], hc[2])
    /\ raiz_dec # NoneNo =>
         /\ raiz_dec = raiz
         /\ codigos # None => Val(codigos) = CodigosDe(raiz_dec)

DeterministicTreeWitness ==
    /\ raiz_dec # NoneNo /\ raiz_dec = raiz /\ codigos # None
    /\ Len(Val(tabela_freq)) = 4
    /\ \A i \in 1..4 : Val(tabela_freq)[i][2] = 1

\* C5: one distinct symbol.  The root is an internal node whose left child is
\* the only leaf and whose right child is absent, the symbol's code is "0",
\* and decoding the container gives back the k copies.
SingleSymbol ==
    (tabela_freq # None /\ Len(Val(tabela_freq)) = 1) =>
        LET b == Val(tabela_freq)[1][1]
            k == Len(Val(bytes_dados))
        IN /\ raiz # NoneNo =>
                /\ ~eh_folha(raiz)
                /\ raiz.esquerdo = NoHuffman(k, b, NoneNo, NoneNo)
                /\ raiz.direito = NoneNo
           /\ codigos # None => Val(codigos) = << <<b, <<0>>>> >>
           /\ (op = "descompactar_arquivo" /\ arq_huff # None) =>
                (erro = "" /\ resultado = Some(Repetir(b, k)))

SingleSymbolWitness ==
    /\ op = "descompactar_arquivo" /\ erro = ""
    /\ bytes_dados = Some(Repetir(97, 5))
    /\ resultado = bytes_dados
    /\ codigos = Some(<< <<97, <<0>>>> >>)

\* C6 as stated: for b"aaab", 'a' has a 1-bit code and 'b' a 2-bit code.
AaabCodeLengthsAsStated ==
    (bytes_dados = Some(<<97, 97, 97, 98>>) /\ codigos # None)
        => /\ Len(DictGet(Val(codigos), 97)) = 1
           /\ Len(DictGet(Val(codigos), 98)) = 2

\* C6 amended: for b"aaab" the table is {a:3, b:1} in that order and both
\* symbols have a 1-bit code, 'b' (popped first, left) "0" and 'a' "1".
AaabCodes ==
    (bytes_dados = Some(<<97, 97, 97, 98>>) /\ codigos # None)
        => /\ tabela_freq = Some(<< <<97, 3>>, <<98, 1>> >>)
           /\ DictGet(Val(codigos), 97) = <<1>>
           /\ DictGet(Val(codigos), 98) = <<0>>

AaabWitness ==
    bytes_dados = Some(<<97, 97, 97, 98>>) /\ codigos # None /\ op = "gerar_codigos"

(***************************************************************************)
(* Properties checked under SpecSessao.                                    *)
(***************************************************************************)
\* every cache that is set is what the loaded bytes give afresh
Coerencia ==
    /\ bytes_dados = None => (tabela_freq = None /\ raiz = NoneNo /\ codigos = None)
    /\ tabela_freq # None => tabela_freq = Some(TabelaDe(Val(bytes_dados)))
    /\ raiz # NoneNo => raiz \in Arvores(TabelaDe(Val(bytes_dados)))
    /\ codigos # None =>
         \E r \in Arvores(TabelaDe(Val(bytes_dados))) : Val(codigos) = CodigosDe(r)
    /\ (op = "ler_arquivo" /\ erro = "") =>
         (bytes_dados # None /\ tabela_freq = None /\ raiz = NoneNo /\ codigos = None)

\* C9: cache coherence.  After any sequence of calls every cache that is not
\* None is the value computed afresh from bytes_dados; a ler_arquivo that
\* returns clears the three caches, one that raises changes no field.
CacheCoherence ==
    /\ []Coerencia
    /\ [][(op' = "ler_arquivo" /\ erro' # "") => UNCHANGED instancia]_vars

CacheCoherenceWitness ==
    /\ op = "ler_arquivo" /\ erro = ""
    /\ bytes_dados # None /\ Val(bytes_dados) # <<>>
    /\ arq_huff # None
    /\ LerContainer(Val(arq_huff)).tabela # TabelaDe(Val(bytes_dados))

(***************************************************************************)
(* Properties checked under SpecDec.                                       *)
(***************************************************************************)
\* the header of the .huff file on disk, as descompactar_arquivo reads it
Cabecalho == LerContainer(Val(arq_huff))

\* the stored table is one compactar writes: symbols distinct, counts >= 1
TabelaBemFormada(c) ==
    /\ Len(c) >= 8
    /\ LerContainer(c).erro = ""
    /\ Len(LerContainer(c).tabela) = BytesParaInt(Ler(c, 4, 4))
    /\ Len(LerContainer(c).tabela) >= 1
    /\ \A i \in 1..Len(LerContainer(c).tabela) : LerContainer(c).tabela[i][2] >= 1

\* C7 as stated: a call of descompactar_arquivo that returns (here on a file
\* whose padding byte is in the format's range 0..7) has emitted exactly as
\* many bytes as the stored frequencies sum to.
DecodeEmitsDeclaredTotal ==
    (op = "descompactar_arquivo" /\ erro = "" /\ Cabecalho.padding \in 0..7)
        => Len(Val(resultado)) = Soma(DictValores(Cabecalho.tabela))

\* C8 as stated: a container with valid magic and table, a non-empty payload
\* and a padding byte above 7 is refused with an error.
PaddingAbove7Fails ==
    (/\ op = "descompactar_arquivo"
     /\ arq_huff # None
     /\ TabelaBemFormada(Val(arq_huff))
     /\ Cabecalho.padding > 7
     /\ Len(Cabecalho.dados) > 0)
        => erro # ""

(***************************************************************************)
(* Properties checked under SpecBits.                                      *)
(***************************************************************************)
\* C10: bit packer.  _bits_para_bytes(s) = (data, padding) has padding in
\* 0..7, 8 * len(data) = len(s) + padding, zero padding bits, and
\* _bytes_para_bits(data) without its last `padding` digits is s.
BitPackerInverse ==
    empacotado # None =>
        LET dados == Val(empacotado)[1]
            padding == Val(empacotado)[2]
            volta == BytesParaBits(dados)
        IN /\ padding \in 0..7
           /\ \A i \in 1..Len(dados) : dados[i] \in 0..255
           /\ 8 * Len(dados) = Len(bits) + padding
           /\ Len(volta) = 8 * Len(dados)
           /\ \A i \in (Len(bits) + 1)..Len(volta) : volta[i] = 0
           /\ TirarPadding(volta, padding) = bits

BitPackerWitness ==
    /\ empacotado # None
    /\ Len(bits) = 8 /\ bits[1] = 1 /\ bits[8] = 1
    /\ Val(empacotado)[2] = 0
    /\ Len(Val(empacotado)[1]) = 1

====
